---- MODULE Spec2Model ----
(***************************************************************************)
(* A model of the ranking and composition engine of recommendation-api:   *)
(*   - HomeDispatch._dedupe_and_limit, checked as a pure function          *)
(*     (SpecDedupe);                                                       *)
(*   - HomeDispatch.get_slate_lineup, one request with its suspension      *)
(*     points and the concurrent slate providers (SpecHome);               *)
(*   - Item2ItemDispatch, one call of an entry point with its lookups      *)
(*     (SpecItem2Item).                                                    *)
(* A recommendation is identified by the id of its corpus item, so a       *)
(* slate's recommendations are a sequence of corpus item ids.              *)
(***************************************************************************)
EXTENDS Integers, Sequences, FiniteSets, TLC

\* ------------------------------------------------------------------ bounds

\* Number of slates handed to _dedupe_and_limit in SpecDedupe.
NumSlates == 2
\* Longest slate a provider hands to _dedupe_and_limit in SpecDedupe.
MaxSlateLen == 2
\* Largest recommendation_count in SpecDedupe.
MaxCount == 2

\* Corpus item ids the slates are drawn from.
CorpusIds == {"Tech1", "Tech2", "Ent2"}

\* Largest recommendation_count of a lineup request in SpecHome.
MaxLineupCount == 1
\* Longest slate a slate provider returns in SpecHome.
MaxProviderRecs == 1
\* Corpus item ids the slate providers of SpecHome draw from.
ProviderCorpusIds == {"Tech1", "Tech2"}

\* Topic ids.
Topics == {"technology", "entertainment"}

\* Largest count asked of an Item-to-Item entry point in SpecItem2Item.
MaxItemCount == 2
\* Longest candidate list a lookup returns in SpecItem2Item.
MaxCandidates == 3

\* Corpus items the lookups of SpecItem2Item return.
CandidateIds == {"a1", "a2", "a3", "a4"}

\* ----------------------------------------------------------------- helpers

Range(s) == {s[i] : i \in DOMAIN s}

Min(a, b) == IF a <= b THEN a ELSE b

Max(a, b) == IF a >= b THEN a ELSE b

SeqsUpTo(S, n) == UNION {[1..k -> S] : k \in 0..n}

IsInjective(s) == \A i, j \in DOMAIN s : s[i] = s[j] => i = j

\* ------------------------------------------------------- CorpusSlateModel

\* CorpusSlateModel.remove_corpus_items: drops the recommendations whose
\* corpus item id is in corpus_ids, the others keep their order.
remove_corpus_items(recs, corpus_ids) ==
    SelectSeq(recs, LAMBDA r : r \notin corpus_ids)

\* CorpusSlateModel.limit: recommendations[:n], a Python slice (a negative n
\* counts from the end).
limit(recs, n) ==
    IF n >= 0 THEN SubSeq(recs, 1, Min(n, Len(recs)))
    ELSE SubSeq(recs, 1, Max(Len(recs) + n, 0))

\* CorpusSlateModel.corpus_item_ids: the ids of the slate's recommendations.
corpus_item_ids(recs) == recs

\* ------------------------------------------ HomeDispatch._dedupe_and_limit

\* seen_corpus_ids = set(): a set kept from an earlier call, the mutable
\* default of Python.
StaleSeen(stale) == stale

\* seen_corpus_ids = set(): the set is fresh in every call, whatever an
\* earlier call left behind.
FreshSeen(stale) == {}

\* The loop body without the limit.
DedupeOnly(recs, seen, n) == remove_corpus_items(recs, seen)

\* slate.remove_corpus_items(seen_corpus_ids).limit(recommendation_count)
DedupeStep(recs, seen, n) == limit(remove_corpus_items(recs, seen), n)

\* The seen set left as it was.
SeenKept(seen, recs) == seen

\* seen_corpus_ids |= set(slate.corpus_item_ids()), read after the slate was
\* deduped and limited.
SeenUpdate(seen, recs) == seen \cup Range(corpus_item_ids(recs))

\* The loop with the seen set updated from the slate before it is limited.
RECURSIVE DedupeLoopMarkBeforeLimit(_, _, _, _)
DedupeLoopMarkBeforeLimit(slates, i, seen, n) ==
    IF i > Len(slates) THEN slates
    ELSE LET deduped == remove_corpus_items(slates[i], seen)
         IN  DedupeLoopMarkBeforeLimit([slates EXCEPT ![i] = limit(deduped, n)], i + 1,
                                       seen \cup Range(corpus_item_ids(deduped)), n)

\* for slate in slates: the slates from position i on, seen the ids of the
\* slates before i as they are after their own step.
RECURSIVE DedupeLoop(_, _, _, _)
DedupeLoop(slates, i, seen, n) ==
    IF i > Len(slates) THEN slates
    ELSE LET recs == DedupeStep(slates[i], seen, n)
         IN  DedupeLoop([slates EXCEPT ![i] = recs], i + 1, SeenUpdate(seen, recs), n)

\* _dedupe_and_limit(slates, recommendation_count); stale is what an earlier
\* call left in the seen set.
dedupe_and_limit(slates, recommendation_count, stale) ==
    DedupeLoop(slates, 1, FreshSeen(stale), recommendation_count)

\* The seen set at the end of the loop.
SeenAfter(slates) == UNION {Range(corpus_item_ids(slates[i])) : i \in DOMAIN slates}

\* ------------------------------------------------------------------- state

VARIABLES
    \* SpecDedupe: _dedupe_and_limit applied to drawn inputs
    dStage,        \* "idle", "input", "once" (after one pass), "twice" (after a second)
    dIn,           \* the slates handed to the first pass
    dCount,        \* recommendation_count of both passes
    dOut,          \* the slates the first pass returned
    dOut2,         \* the slates the second pass returned, run on dOut
    dSeen,         \* the seen set the last pass ended with
    \* SpecHome: one call of HomeDispatch.get_slate_lineup
    hpc,           \* "idle", "prefetch", "topics", "gather", "done", "failed"
    locale,        \* the locale argument
    hCount,        \* the recommendation_count argument
    fetchPending,  \* the preliminary fetches in flight
    fetched,       \* the preliminary fetches that have completed
    preferred_topics,  \* what _get_preferred_topics returned
    assignment,    \* thompson_sampling_assignment: "none", "control", "treatment"
    providers,     \* the slates list of provider calls, in composition order
    topicRequest,  \* the ids handed to topic_provider.get_topics
    invoked,       \* positions of the provider calls that were started
    completed,     \* positions of the provider calls that have returned
    produced,      \* produced[i]: the recommendations provider call i returned
    gathered,      \* the list gather builds: gathered[k] is the slate object at k
    heap,          \* heap[i]: the recommendations slate object i holds now
    lineup,        \* the CorpusSlateLineupModel returned
    hError,        \* the error get_slate_lineup raised, "none" when none
    lastReturnedFirst, \* history: the call at the last position was the first to return
    providerRaised,    \* history: some provider call of this request raised
    catalogTopics,     \* history: the topics topic_provider.get_topics returned
    \* SpecItem2Item: one call of an entry point of Item2ItemDispatch
    ipc,           \* "idle", "primary", "fallback", "returned", "raised"
    entry,         \* the entry point called
    iCount,        \* its count argument
    lookups,       \* the lookups called on item_recommender, in call order
    primaryOutcome,   \* "none", "ok" or the error the primary lookup raised
    fallbackOutcome,  \* "none", "ok" or the error the fallback query raised
    candidates,    \* the recs handed to _sample
    iResult,       \* the list the entry point returned
    iError         \* the error that reached the caller, "none" when none

dvars == <<dStage, dIn, dCount, dOut, dOut2, dSeen>>

hvars == <<hpc, locale, hCount, fetchPending, fetched, preferred_topics, assignment,
           providers, topicRequest, invoked, completed, produced, gathered, heap,
           lineup, hError, lastReturnedFirst, providerRaised, catalogTopics>>

ivars == <<ipc, entry, iCount, lookups, primaryOutcome, fallbackOutcome, candidates,
           iResult, iError>>

VARIABLES
    \* SpecThompson: one call of TopicRecommendationsModelUtils.thompson_sampling
    tpc,           \* "idle", "fetch", "sample", "done", "failed"
    tRecs,         \* the recs argument, as item ids
    clk_data,      \* the click data in use: item id or "default" -> entry
    clickdataOutcome, \* "none", "data", "ValueError": how get_clickdata ended
    alpha_prior,   \* the prior's first parameter, in thousandths
    beta_prior,    \* the prior's second parameter, in thousandths
    tParams,       \* per rec sampled so far, the Beta parameters it was sampled with
    tScores,       \* per rec, the sampled score
    tOut,          \* the returned ranking
    tError         \* "none" or the error that left thompson_sampling

tvars == <<tpc, tRecs, clk_data, clickdataOutcome, alpha_prior, beta_prior,
           tParams, tScores, tOut, tError>>

VARIABLES
    \* SpecSpread: spread_publishers applied to drawn inputs
    spc,           \* "idle", "input", "done"
    sPubs,         \* the recs argument: the publisher of each rec, in input order
    sSpread,       \* the spread argument
    sOut,          \* the returned order, as positions of the input
    sGaveUpAt      \* the output position at which the walk gave up, 0 if it never did

svars == <<spc, sPubs, sSpread, sOut, sGaveUpAt>>

VARIABLES
    \* SpecTopics: rank_by_preferred_topics applied to drawn inputs
    ppc,           \* "idle", "input", "done"
    pPool,         \* the pool: the topic of each item, in pool order
    pPreferred,    \* the preferred topics, in rank order
    pCount,        \* the count argument
    pOut           \* the returned items, as positions of the pool

pvars == <<ppc, pPool, pPreferred, pCount, pOut>>

VARIABLES
    \* SpecTopicRecs: one call of TopicRecommendationsModel.get_recommendations
    gpc,           \* "idle", "topic", "fetch", "thompson", "done", "failed"
    gPageType,     \* the page type of the topic
    gAlgCount,     \* the algorithmic_count argument
    gCurCount,     \* the curated_count argument
    gSpread,       \* the publisher_spread argument
    gFetched,      \* the lists as fetched: [curated, algorithmic]
    gDeduped,      \* the lists after dedupe
    gRanked,       \* the algorithmic list as thompson_sampling returned it
    gResult,       \* the returned model
    gError         \* "none" or the error that left get_recommendations

gvars == <<gpc, gPageType, gAlgCount, gCurCount, gSpread, gFetched, gDeduped,
           gRanked, gResult, gError>>

rvars == <<tvars, svars, pvars, gvars>>

vars == <<dvars, hvars, ivars, rvars>>

\* No pass of SpecDedupe is run.
DedupeIdle ==
    /\ dStage = "idle"
    /\ dIn = <<>>
    /\ dCount = 0
    /\ dOut = <<>>
    /\ dOut2 = <<>>
    /\ dSeen = {}

\* No lineup request is made.
HomeIdle ==
    /\ hpc = "idle"
    /\ locale = "none"
    /\ hCount = 0
    /\ fetchPending = {}
    /\ fetched = {}
    /\ preferred_topics = <<>>
    /\ assignment = "none"
    /\ providers = <<>>
    /\ topicRequest = <<>>
    /\ invoked = {}
    /\ completed = {}
    /\ produced = <<>>
    /\ gathered = <<>>
    /\ heap = <<>>
    /\ lineup = [slates |-> <<>>, recommendation_surface_id |-> "none", experiment |-> "none"]
    /\ hError = "none"
    /\ lastReturnedFirst = FALSE
    /\ providerRaised = FALSE
    /\ catalogTopics = <<>>

\* No Item-to-Item entry point is called.
Item2ItemIdle ==
    /\ ipc = "idle"
    /\ entry = "none"
    /\ iCount = 0
    /\ lookups = <<>>
    /\ primaryOutcome = "none"
    /\ fallbackOutcome = "none"
    /\ candidates = <<>>
    /\ iResult = <<>>
    /\ iError = "none"

\* thompson_sampling is not called.
ThompsonIdle ==
    /\ tpc = "idle"
    /\ tRecs = <<>>
    /\ clk_data = <<>>
    /\ clickdataOutcome = "none"
    /\ alpha_prior = 0
    /\ beta_prior = 0
    /\ tParams = <<>>
    /\ tScores = <<>>
    /\ tOut = <<>>
    /\ tError = "none"

\* spread_publishers is not called.
SpreadIdle ==
    /\ spc = "idle"
    /\ sPubs = <<>>
    /\ sSpread = 0
    /\ sOut = <<>>
    /\ sGaveUpAt = 0

\* rank_by_preferred_topics is not called.
TopicsIdle ==
    /\ ppc = "idle"
    /\ pPool = <<>>
    /\ pPreferred = <<>>
    /\ pCount = 0
    /\ pOut = <<>>

\* get_recommendations is not called.
TopicRecsIdle ==
    /\ gpc = "idle"
    /\ gPageType = "none"
    /\ gAlgCount = 0
    /\ gCurCount = 0
    /\ gSpread = 0
    /\ gFetched = [curated |-> <<>>, algorithmic |-> <<>>]
    /\ gDeduped = [curated |-> <<>>, algorithmic |-> <<>>]
    /\ gRanked = <<>>
    /\ gResult = [curated_recommendations |-> <<>>, algorithmic_recommendations |-> <<>>]
    /\ gError = "none"

\* No ranker is called.
RankersIdle == ThompsonIdle /\ SpreadIdle /\ TopicsIdle /\ TopicRecsIdle

\* --------------------------------------------------------------- SpecDedupe

InputSlates == [1..NumSlates -> SeqsUpTo(CorpusIds, MaxSlateLen)]

InitDedupe ==
    /\ dStage = "input"
    /\ dIn \in InputSlates
    /\ dCount \in 0..MaxCount
    /\ dOut = <<>>
    /\ dOut2 = <<>>
    /\ dSeen = {}
    /\ HomeIdle
    /\ Item2ItemIdle
    /\ RankersIdle

\* The first pass, on the providers' slates.
FirstPass ==
    /\ dStage = "input"
    /\ dOut' = dedupe_and_limit(dIn, dCount, dSeen)
    /\ dSeen' = SeenAfter(dOut')
    /\ dStage' = "once"
    /\ UNCHANGED <<dIn, dCount, dOut2, hvars, ivars, rvars>>

\* The pass run again on the slates it returned.
SecondPass ==
    /\ dStage = "once"
    /\ dOut2' = dedupe_and_limit(dOut, dCount, dSeen)
    /\ dSeen' = SeenAfter(dOut2')
    /\ dStage' = "twice"
    /\ UNCHANGED <<dIn, dCount, dOut, hvars, ivars, rvars>>

NextDedupe == FirstPass \/ SecondPass

SpecDedupe == InitDedupe /\ [][NextDedupe]_vars

\* ------------------------------------------------- claims of SpecDedupe

\* The ids of the input slate j that no output slate before j holds, in order.
NotInEarlierOutput(j) ==
    SelectSeq(dIn[j], LAMBDA r : \A i \in 1..(j - 1) : r \notin Range(dOut[i]))

\* C1: when every input slate has unique item ids, no item id occurs in two
\* different output slates of the pass.
C1_NoIdInTwoOutputSlates ==
    (dStage # "input" /\ \A j \in DOMAIN dIn : IsInjective(dIn[j]))
        => \A i, j \in DOMAIN dOut :
               i # j => Range(dOut[i]) \cap Range(dOut[j]) = {}

\* Two input slates with unique ids share an id, and the pass has run.
C1_Witness ==
    /\ dStage = "once"
    /\ \A j \in DOMAIN dIn : IsInjective(dIn[j])
    /\ \E i, j \in DOMAIN dIn :
           /\ i < j
           /\ Range(dIn[i]) \cap Range(dIn[j]) # {}
           /\ Range(dOut[i]) \cap Range(dIn[j]) # {}

\* C2: output slate j is the first recommendation_count items, in input
\* order, of input slate j without the ids that the OUTPUT of an earlier
\* slate holds; an id that earlier slates held only in their input (cut by
\* truncation) is not removed from slate j.
C2_OutputIsDedupedAgainstRetained ==
    dStage # "input" =>
        \A j \in DOMAIN dIn :
            /\ dOut[j] = SubSeq(NotInEarlierOutput(j), 1,
                                Min(dCount, Len(NotInEarlierOutput(j))))
            /\ \A r \in Range(dIn[j]) :
                   ( /\ \E i \in 1..(j - 1) : r \in Range(dIn[i])
                     /\ \A i \in 1..(j - 1) : r \notin Range(dOut[i])
                     /\ Len(NotInEarlierOutput(j)) <= dCount )
                       => r \in Range(dOut[j])

\* An earlier slate lost an id to truncation and a later slate keeps that id.
C2_Witness ==
    /\ dStage = "once"
    /\ \E i, j \in DOMAIN dIn : \E r \in CorpusIds :
           /\ i < j
           /\ r \in Range(dIn[i])
           /\ r \notin Range(dOut[i])
           /\ r \in Range(dOut[j])

\* C3: every output slate holds at most recommendation_count
\* recommendations, whatever the input slates hold.
C3_AtMostCount ==
    dStage # "input" => \A j \in DOMAIN dOut : Len(dOut[j]) <= dCount

\* A slate longer than recommendation_count after its dedup went through the pass.
C3_Witness ==
    /\ dStage = "once"
    /\ \E j \in DOMAIN dIn :
           /\ Len(NotInEarlierOutput(j)) > dCount
           /\ Len(dOut[j]) = dCount

\* C4: the pass run a second time, with the same recommendation_count, on
\* the slates it returned leaves every slate's recommendations unchanged.
C4_Idempotent ==
    dStage = "twice" => dOut2 = dOut

\* The second pass ran on slates that the first pass had changed and left
\* non-empty.
C4_Witness ==
    /\ dStage = "twice"
    /\ dOut # dIn
    /\ \E j \in DOMAIN dOut : dOut[j] # <<>>

\* ------------------------------------------ HomeDispatch.get_slate_lineup

\* LocaleModel values a request may carry; only the first two have a lineup.
Locales == {"en_US", "de_DE", "fr_FR"}

\* app.config.DEFAULT_TOPICS: the topic ids of en-US Home without preferences.
DEFAULT_TOPICS == <<"technology">>

\* app.config.GERMAN_HOME_TOPICS: the topic ids of de-DE Home.
GERMAN_HOME_TOPICS == <<"entertainment", "technology">>

\* The three fetches of the first gather of get_en_us_slate_lineup.
PreliminaryFetches == {"user_impression_cap", "preferred_topics", "assignment"}

\* The preferred topic lists of the users of SpecHome: none or one topic.
PreferredTopicLists == {<<>>} \cup {<<t>> : t \in Topics}

\* What preferences_provider.fetch may return: nothing, or preferences with
\* an ordered list of preferred topics, which may be empty.
Preferences ==
    {[present |-> FALSE, preferred_topics |-> <<>>]} \cup
    {[present |-> TRUE, preferred_topics |-> t] : t \in PreferredTopicLists}

\* What unleash_provider.get_assignment may return: None or a variant.
Assignments == {"none", "control", "treatment"}

\* The recommendations a slate provider may return: unique ids.
ProviderSlates == {q \in SeqsUpTo(ProviderCorpusIds, MaxProviderRecs) : IsInjective(q)}

\* _get_preferred_topics: the preferred topics, [] without preferences.
get_preferred_topics(preferences) ==
    IF preferences.present /\ preferences.preferred_topics # <<>>
    THEN preferences.preferred_topics
    ELSE <<>>

\* enable_thompson_sampling
enable_thompson_sampling(a) == IF a # "none" /\ a = "treatment" THEN "on" ELSE "off"

\* A call of a slate provider's get_slate: the provider, its topic (topic
\* slates only) and the enable_thompson_sampling argument ("default" when
\* the call passes none).
ProviderCall(kind, topic, thompson) == [kind |-> kind, topic |-> topic, thompson |-> thompson]

\* An unknown locale handled like en_US.
LineupOfLocaleDefaultEnUs(loc) ==
    IF loc = "de_DE" THEN "de_DE" ELSE "en_US"

\* get_slate_lineup: the lineup a locale is dispatched to, "ValueError" for a
\* locale that has none.
LineupOfLocale(loc) ==
    IF loc = "en_US" THEN "en_US"
    ELSE IF loc = "de_DE" THEN "de_DE"
    ELSE "ValueError"

\* Variant of EnUsSlates: Recommended Reads leads the lineup of every user.
EnUsSlatesRecommendedReadsFirst(preferred, a) ==
    <<ProviderCall("recommended_reads", "-", enable_thompson_sampling(a)),
      ProviderCall("pocket_hits", "-", "default"),
      ProviderCall("collection", "-", enable_thompson_sampling(a)),
      ProviderCall("life_hacks", "-", "default")>>

\* get_en_us_slate_lineup: the provider calls before the topic slates.
EnUsSlates(preferred, a) ==
    (IF preferred # <<>>
     THEN <<ProviderCall("for_you", "-", enable_thompson_sampling(a))>>
     ELSE <<ProviderCall("recommended_reads", "-", enable_thompson_sampling(a))>>)
    \o <<ProviderCall("pocket_hits", "-", "default"),
         ProviderCall("collection", "-", enable_thompson_sampling(a)),
         ProviderCall("life_hacks", "-", "default")>>

\* get_de_de_slate_lineup: the provider calls before the topic slates.
DeDeSlates ==
    <<ProviderCall("recommended_reads", "-", "default"),
      ProviderCall("collection", "-", "default")>>

\* _get_topic_slate_promises: the ids asked of the topic catalog.
TopicIdsAsked(preferred, default) == IF preferred # <<>> THEN preferred ELSE default

\* _get_topic_slate_promises: one topic slate call per topic the catalog
\* returned, in the catalog's order.
TopicSlates(topics) == [k \in DOMAIN topics |-> ProviderCall("topic", topics[k], "default")]

\* The order-preserving sublists of ids: what topic_provider.get_topics may
\* return for them.
RECURSIVE SubLists(_)
SubLists(ids) ==
    IF ids = <<>> THEN {<<>>}
    ELSE LET rest == SubLists(Tail(ids))
         IN  rest \cup {<<Head(ids)>> \o r : r \in rest}

\* A gather that hands the results back in the order they arrived.
GatherStoreByArrival(list, i) ==
    LET k == CHOOSE m \in DOMAIN list : list[m] = 0 /\ \A q \in 1..(m - 1) : list[q] # 0
    IN  [list EXCEPT ![k] = i]

\* gather(*slates): the result of the awaitable at position i is placed at
\* position i of the list, whenever it arrives.
GatherStore(list, i) == [list EXCEPT ![i] = i]

\* The recommendations of the slate objects of a list, position by position.
Contents(list, h) == [k \in DOMAIN list |-> h[list[k]]]

\* Variant of Joined: the composition starts as soon as one of the three
\* fetches has completed.
JoinedFirst(pending) == pending # PreliminaryFetches

\* await gather(get_user_impression_caps, _get_preferred_topics,
\* get_assignment): the coroutine resumes when none of the three is pending.
Joined(pending) == pending = {}

\* Variant of ProviderErrorHandling: the failed call counts as an empty slate.
ProviderErrorEmptySlate(i) == "empty_slate"

\* What get_slate_lineup does with the exception of provider call i:
\* gather is called without return_exceptions and there is no try around
\* it, so the exception propagates to the caller.
ProviderErrorHandling(i) == "propagate"

\* Variant of InPlace: the pass works on copies, the objects are untouched.
OnCopies(h, list, out) == h

\* slate.remove_corpus_items(...).limit(...) changes the slate object
\* itself: the value of the chain is dropped and the list that was passed in
\* is returned. The object at position k of the list gets the pass's output
\* for position k.
InPlace(h, list, out) ==
    [i \in DOMAIN h |-> out[CHOOSE k \in DOMAIN list : list[k] = i]]

\* get_slate_lineup(user, locale, recommendation_count) up to its first
\* suspension point.
GetSlateLineup(loc, cnt) ==
    /\ hpc = "idle"
    /\ locale' = loc
    /\ hCount' = cnt
    /\ \/ /\ LineupOfLocale(loc) = "en_US"
          /\ hpc' = "prefetch"
          /\ fetchPending' = PreliminaryFetches
          /\ UNCHANGED <<providers, topicRequest, hError>>
       \/ /\ LineupOfLocale(loc) = "de_DE"
          /\ hpc' = "topics"
          /\ providers' = DeDeSlates
          /\ topicRequest' = TopicIdsAsked(<<>>, GERMAN_HOME_TOPICS)
          /\ UNCHANGED <<fetchPending, hError>>
       \/ /\ LineupOfLocale(loc) = "ValueError"
          /\ hpc' = "failed"
          /\ hError' = "ValueError"
          /\ UNCHANGED <<fetchPending, providers, topicRequest>>
    /\ UNCHANGED <<fetched, preferred_topics, assignment, invoked, completed,
                   produced, gathered, heap, lineup, lastReturnedFirst, providerRaised, catalogTopics, dvars, ivars, rvars>>

\* user_impression_cap_provider.get(user) returns.
ImpressionCapsFetched ==
    /\ hpc = "prefetch"
    /\ "user_impression_cap" \in fetchPending
    /\ fetchPending' = fetchPending \ {"user_impression_cap"}
    /\ fetched' = fetched \cup {"user_impression_cap"}
    /\ UNCHANGED <<hpc, locale, hCount, preferred_topics, assignment, providers,
                   topicRequest, invoked, completed, produced, gathered, heap,
                   lineup, hError, lastReturnedFirst, providerRaised, catalogTopics, dvars, ivars, rvars>>

\* _get_preferred_topics(user) returns.
PreferredTopicsFetched(preferences) ==
    /\ hpc = "prefetch"
    /\ "preferred_topics" \in fetchPending
    /\ fetchPending' = fetchPending \ {"preferred_topics"}
    /\ fetched' = fetched \cup {"preferred_topics"}
    /\ preferred_topics' = get_preferred_topics(preferences)
    /\ UNCHANGED <<hpc, locale, hCount, assignment, providers, topicRequest,
                   invoked, completed, produced, gathered, heap, lineup, hError, lastReturnedFirst, providerRaised, catalogTopics, dvars, ivars, rvars>>

\* unleash_provider.get_assignment(...) returns.
AssignmentFetched(a) ==
    /\ hpc = "prefetch"
    /\ "assignment" \in fetchPending
    /\ fetchPending' = fetchPending \ {"assignment"}
    /\ fetched' = fetched \cup {"assignment"}
    /\ assignment' = a
    /\ UNCHANGED <<hpc, locale, hCount, preferred_topics, providers, topicRequest,
                   invoked, completed, produced, gathered, heap, lineup, hError, lastReturnedFirst, providerRaised, catalogTopics, dvars, ivars, rvars>>

\* get_en_us_slate_lineup after its first gather: the fixed slates are
\* composed and the topic catalog is asked.
ComposeEnUs ==
    /\ hpc = "prefetch"
    /\ Joined(fetchPending)
    /\ providers' = EnUsSlates(preferred_topics, assignment)
    /\ topicRequest' = TopicIdsAsked(preferred_topics, DEFAULT_TOPICS)
    /\ hpc' = "topics"
    /\ UNCHANGED <<locale, hCount, fetchPending, fetched, preferred_topics, assignment,
                   invoked, completed, produced, gathered, heap, lineup, hError, lastReturnedFirst, providerRaised, catalogTopics, dvars, ivars, rvars>>

\* topic_provider.get_topics returns; the topic slate calls are appended and
\* gather(*slates) starts every provider call.
TopicsReturned(topics) ==
    /\ hpc = "topics"
    /\ LET calls == providers \o TopicSlates(topics)
       IN  /\ providers' = calls
           /\ invoked' = DOMAIN calls
           /\ produced' = [k \in DOMAIN calls |-> <<>>]
           /\ heap' = [k \in DOMAIN calls |-> <<>>]
           /\ gathered' = [k \in DOMAIN calls |-> 0]
    /\ catalogTopics' = topics
    /\ hpc' = "gather"
    /\ UNCHANGED <<locale, hCount, fetchPending, fetched, preferred_topics, assignment,
                   topicRequest, completed, lineup, hError, lastReturnedFirst, providerRaised,
                   dvars, ivars, rvars>>

\* Provider call i returns its slate, in any order among the calls.
ProviderReturns(i, recs) ==
    /\ hpc = "gather"
    /\ i \in invoked \ completed
    /\ completed' = completed \cup {i}
    /\ produced' = [produced EXCEPT ![i] = recs]
    /\ heap' = [heap EXCEPT ![i] = recs]
    /\ gathered' = GatherStore(gathered, i)
    /\ lastReturnedFirst' = IF completed = {} THEN i = Len(providers) ELSE lastReturnedFirst
    /\ UNCHANGED <<hpc, locale, hCount, fetchPending, fetched, preferred_topics,
                   assignment, providers, topicRequest, invoked, lineup, hError,
                   providerRaised, catalogTopics, dvars, ivars, rvars>>

\* Provider call i raises: gather raises it into get_slate_lineup, which
\* has no handler. The request's frame is gone, and with it the slates that
\* were gathered so far.
ProviderFails(i) ==
    /\ hpc = "gather"
    /\ i \in invoked \ completed
    /\ providerRaised' = TRUE
    /\ IF ProviderErrorHandling(i) = "propagate"
       THEN /\ hpc' = "failed"
            /\ hError' = "ProviderError"
            /\ completed' = {}
            /\ produced' = <<>>
            /\ gathered' = <<>>
            /\ heap' = <<>>
            /\ lastReturnedFirst' = FALSE
       ELSE /\ completed' = completed \cup {i}
            /\ gathered' = GatherStore(gathered, i)
            /\ UNCHANGED <<hpc, hError, produced, heap, lastReturnedFirst>>
    /\ UNCHANGED <<locale, hCount, fetchPending, fetched, preferred_topics, assignment,
                   providers, topicRequest, invoked, lineup, catalogTopics, dvars, ivars, rvars>>

\* Every provider call has returned: _dedupe_and_limit runs on the gathered
\* list, changing the slate objects in place, and the lineup is returned.
DedupeAndReturn ==
    /\ hpc = "gather"
    /\ completed = invoked
    /\ heap' = InPlace(heap, gathered,
                       dedupe_and_limit(Contents(gathered, heap), hCount, {}))
    /\ lineup' = [slates |-> gathered,
                  recommendation_surface_id |-> "HOME",
                  experiment |-> IF LineupOfLocale(locale) = "en_US"
                                 THEN assignment ELSE "none"]
    /\ hpc' = "done"
    /\ UNCHANGED <<locale, hCount, fetchPending, fetched, preferred_topics, assignment,
                   providers, topicRequest, invoked, completed, produced, gathered,
                   hError, lastReturnedFirst, providerRaised, catalogTopics, dvars, ivars, rvars>>

InitHome == DedupeIdle /\ HomeIdle /\ Item2ItemIdle /\ RankersIdle

NextHome ==
    \/ \E loc \in Locales, cnt \in 0..MaxLineupCount : GetSlateLineup(loc, cnt)
    \/ ImpressionCapsFetched
    \/ \E preferences \in Preferences : PreferredTopicsFetched(preferences)
    \/ \E a \in Assignments : AssignmentFetched(a)
    \/ ComposeEnUs
    \/ \E topics \in SubLists(topicRequest) : TopicsReturned(topics)
    \/ \E i \in invoked, recs \in ProviderSlates : ProviderReturns(i, recs)
    \/ \E i \in invoked : ProviderFails(i)
    \/ DedupeAndReturn

SpecHome == InitHome /\ [][NextHome]_vars

\* --------------------------------------------------- claims of SpecHome

\* The recommendations of the slates of the returned lineup, in lineup order.
LineupContents == Contents(lineup.slates, heap)

\* C5: the returned lineup is decided by what the provider calls returned
\* and by their composition order alone, whatever order they completed in:
\* the slate at position k is the one call k returned, the contents are
\* those of the pass run in composition order, an id two calls returned is
\* never held by the later slate when the earlier one holds it, and the
\* first call in composition order to return an id keeps it when it is not
\* truncated.
C5_LineupInCompositionOrder ==
    hpc = "done" =>
        /\ lineup.slates = [k \in DOMAIN providers |-> k]
        /\ LineupContents = dedupe_and_limit(produced, hCount, {})
        /\ \A i, j \in DOMAIN providers :
               i < j => Range(LineupContents[i]) \cap Range(LineupContents[j]) = {}
        /\ \A i \in DOMAIN providers : \A r \in Range(produced[i]) :
               ( /\ \A q \in 1..(i - 1) : r \notin Range(produced[q])
                 /\ Len(produced[i]) <= hCount )
                   => r \in Range(LineupContents[i])

\* The last call in composition order returned first, it and the first call
\* returned the same id, and the lineup's first slate holds that id.
C5_Witness ==
    /\ hpc = "done"
    /\ lastReturnedFirst
    /\ \E r \in ProviderCorpusIds :
           /\ r \in Range(produced[1])
           /\ r \in Range(produced[Len(providers)])
           /\ r \in Range(LineupContents[1])
           /\ r \notin Range(LineupContents[Len(providers)])

\* C10: a request with a locale other than en_US and de_DE fails with
\* ValueError, and neither a preliminary fetch, nor the topic catalog, nor a
\* slate provider is called for it.
C10_InvalidLocaleRejected ==
    (hpc # "idle" /\ locale \notin {"en_US", "de_DE"}) =>
        /\ hpc = "failed"
        /\ hError = "ValueError"
        /\ fetchPending = {} /\ fetched = {}
        /\ topicRequest = <<>>
        /\ providers = <<>> /\ invoked = {}
        /\ lineup.slates = <<>>

\* A request with such a locale was made and has failed.
C10_Witness ==
    /\ locale = "fr_FR"
    /\ hpc = "failed"
    /\ hError = "ValueError"

\* ------------------------------------------------------ Item2ItemDispatch

\* The pool the fallback queries are asked for.
FallbackPool == 100

\* The four entry points.
EntryPoints == {"after_save", "after_article", "syndicated", "by_publisher"}

\* The publisher domain handed to by_publisher.
PublisherDomain == "thedude.com"

\* The two errors a lookup of item_recommender raises: the similarity
\* specific one and the backend one, neither a subclass of the other.
LookupErrors == {"Item2ItemError", "QdrantError"}

\* The candidate lists a lookup returns: distinct corpus items.
CandidateLists == {q \in SeqsUpTo(CandidateIds, MaxCandidates) : IsInjective(q)}

\* A call on item_recommender.
Lookup(fn, count, domain, is_syndicated) ==
    [fn |-> fn, count |-> count, domain |-> domain, is_syndicated |-> is_syndicated]

\* The first lookup of each entry point.
PrimaryLookup(e, count) ==
    CASE e = "after_save" -> Lookup("related", count, "-", "-")
      [] e = "after_article" -> Lookup("related", count, "-", "-")
      [] e = "syndicated" -> Lookup("syndicated", count, "-", "-")
      [] e = "by_publisher" -> Lookup("by_publisher", count, PublisherDomain, "-")

\* Variant of FallbackLookups: the fallback query is called a second time.
FallbackLookupsTwice(e) ==
    CASE e = "after_save" -> <<>>
      [] e = "after_article" ->
             <<Lookup("frequently_saved", FallbackPool, "-", "False"),
               Lookup("frequently_saved", FallbackPool, "-", "False")>>
      [] e = "syndicated" ->
             <<Lookup("frequently_saved", FallbackPool, "-", "True"),
               Lookup("frequently_saved", FallbackPool, "-", "True")>>
      [] e = "by_publisher" ->
             <<Lookup("random_by_publisher", FallbackPool, PublisherDomain, "-"),
               Lookup("random_by_publisher", FallbackPool, PublisherDomain, "-")>>

\* after_save answering Item2ItemError like after_article does.
FallbackLookupsAfterSaveToo(e) ==
    CASE e \in {"after_save", "after_article"} ->
             <<Lookup("frequently_saved", FallbackPool, "-", "False")>>
      [] e = "syndicated" -> <<Lookup("frequently_saved", FallbackPool, "-", "True")>>
      [] e = "by_publisher" ->
             <<Lookup("random_by_publisher", FallbackPool, PublisherDomain, "-")>>

\* The except Item2ItemError branch of each entry point: the fallback query
\* it calls; none in after_save, which sets recs = [].
FallbackLookups(e) ==
    CASE e = "after_save" -> <<>>
      [] e = "after_article" -> <<Lookup("frequently_saved", FallbackPool, "-", "False")>>
      [] e = "syndicated" -> <<Lookup("frequently_saved", FallbackPool, "-", "True")>>
      [] e = "by_publisher" ->
             <<Lookup("random_by_publisher", FallbackPool, PublisherDomain, "-")>>

\* Every entry point carries the decorator.
DecoratedAll(e) == TRUE

\* No entry point carries the decorator.
DecoratedNone(e) == FALSE

\* The entry points wrapped by @_empty_on_error.
Decorated(e) == e \in {"after_article", "syndicated", "by_publisher"}

\* _empty_on_error: what the wrapper does with an error that leaves the
\* wrapped function; an entry point without the decorator lets it pass.
empty_on_error(e, err) ==
    IF Decorated(e) /\ err = "QdrantError" THEN "empty" ELSE "raise"

\* CorpusRecommendationModel(corpus_item=r)
CorpusRecommendation(r) == [corpus_item |-> r]

\* The sequences of k different positions of a list of length n.
Picks(n, k) == {q \in [1..k -> 1..n] : IsInjective(q)}

\* _sample drawing with replacement: a position may be drawn twice.
SampleWithReplacement(rs, count) ==
    IF count < Len(rs)
    THEN {[k \in 1..count |-> CorpusRecommendation(rs[q[k]])] : q \in [1..count -> 1..Len(rs)]}
    ELSE {[k \in DOMAIN rs |-> CorpusRecommendation(rs[k])]}

\* _sample(recs, count): the lists it may return. random.sample draws count
\* different positions, in any order; with count >= len(recs) the list is
\* recs itself. Each element is wrapped.
sample(rs, count) ==
    IF count < Len(rs)
    THEN {[k \in 1..count |-> CorpusRecommendation(rs[q[k]])] : q \in Picks(Len(rs), count)}
    ELSE {[k \in DOMAIN rs |-> CorpusRecommendation(rs[k])]}

\* An entry point is called and awaits its primary lookup.
CallEntryPoint(e, count) ==
    /\ ipc = "idle"
    /\ entry' = e
    /\ iCount' = count
    /\ lookups' = <<PrimaryLookup(e, count)>>
    /\ ipc' = "primary"
    /\ UNCHANGED <<primaryOutcome, fallbackOutcome, candidates, iResult, iError, dvars, hvars, rvars>>

\* A lookup returned a candidate list: it is sampled and returned.
SampleAndReturn(rs) ==
    /\ candidates' = rs
    /\ iResult' \in sample(rs, iCount)
    /\ ipc' = "returned"

\* An error leaves the body of the entry point: the decorator, when there
\* is one, decides between the empty list and the error.
LeaveWith(err) ==
    IF empty_on_error(entry, err) = "empty"
    THEN /\ iResult' = <<>>
         /\ ipc' = "returned"
         /\ UNCHANGED iError
    ELSE /\ iError' = err
         /\ ipc' = "raised"
         /\ UNCHANGED iResult

\* The primary lookup returns rs.
PrimaryReturns(rs) ==
    /\ ipc = "primary"
    /\ primaryOutcome' = "ok"
    /\ SampleAndReturn(rs)
    /\ UNCHANGED <<entry, iCount, lookups, fallbackOutcome, iError, dvars, hvars, rvars>>

\* The primary lookup raises Item2ItemError: the fallback query is called,
\* or, in after_save, recs = [] is sampled and returned.
PrimaryRaisesItem2ItemError ==
    /\ ipc = "primary"
    /\ primaryOutcome' = "Item2ItemError"
    /\ IF FallbackLookups(entry) # <<>>
       THEN /\ lookups' = lookups \o FallbackLookups(entry)
            /\ ipc' = "fallback"
            /\ UNCHANGED <<candidates, iResult>>
       ELSE /\ SampleAndReturn(<<>>)
            /\ UNCHANGED lookups
    /\ UNCHANGED <<entry, iCount, fallbackOutcome, iError, dvars, hvars, rvars>>

\* The primary lookup raises QdrantError, which no except clause of the
\* entry point names.
PrimaryRaisesQdrantError ==
    /\ ipc = "primary"
    /\ primaryOutcome' = "QdrantError"
    /\ LeaveWith("QdrantError")
    /\ UNCHANGED <<entry, iCount, lookups, fallbackOutcome, candidates, dvars, hvars, rvars>>

\* The fallback query returns rs.
FallbackReturns(rs) ==
    /\ ipc = "fallback"
    /\ fallbackOutcome' = "ok"
    /\ SampleAndReturn(rs)
    /\ UNCHANGED <<entry, iCount, lookups, primaryOutcome, iError, dvars, hvars, rvars>>

\* The fallback query raises, inside the except branch: nothing of the
\* entry point catches it.
FallbackRaises(err) ==
    /\ ipc = "fallback"
    /\ fallbackOutcome' = err
    /\ LeaveWith(err)
    /\ UNCHANGED <<entry, iCount, lookups, primaryOutcome, candidates, dvars, hvars, rvars>>

InitItem2Item == DedupeIdle /\ HomeIdle /\ Item2ItemIdle /\ RankersIdle

NextItem2Item ==
    \/ \E e \in EntryPoints, count \in 0..MaxItemCount : CallEntryPoint(e, count)
    \/ \E rs \in CandidateLists : PrimaryReturns(rs)
    \/ PrimaryRaisesItem2ItemError
    \/ PrimaryRaisesQdrantError
    \/ \E rs \in CandidateLists : FallbackReturns(rs)
    \/ \E err \in LookupErrors : FallbackRaises(err)

SpecItem2Item == InitItem2Item /\ [][NextItem2Item]_vars

\* ----------------------------------------------- claims of SpecItem2Item

\* C6: when the primary lookup of after_save raises Item2ItemError, the
\* call returns the empty list, for every count, and the primary lookup is
\* the only lookup that was called.
C6_AfterSaveNoFallback ==
    (entry = "after_save" /\ primaryOutcome = "Item2ItemError") =>
        /\ ipc = "returned"
        /\ iResult = <<>>
        /\ iError = "none"
        /\ lookups = <<PrimaryLookup("after_save", iCount)>>
        /\ fallbackOutcome = "none"

\* after_save was asked for a positive count and its lookup raised
\* Item2ItemError.
C6_Witness ==
    /\ entry = "after_save"
    /\ iCount > 0
    /\ primaryOutcome = "Item2ItemError"
    /\ ipc = "returned"

\* C7 (as claimed): Item2ItemError never reaches the caller of an entry
\* point, whichever lookup raised it.
C7_Item2ItemErrorNeverSurfaced ==
    iError # "Item2ItemError"

\* C8: in after_article, syndicated and by_publisher a QdrantError raised by
\* the primary lookup or by the fallback query makes the call return the
\* empty list, and no error reaches the caller.
C8_QdrantErrorGivesEmpty ==
    ( /\ entry \in {"after_article", "syndicated", "by_publisher"}
      /\ (primaryOutcome = "QdrantError" \/ fallbackOutcome = "QdrantError") )
        => /\ ipc = "returned"
           /\ iResult = <<>>
           /\ iError = "none"

\* by_publisher was asked for a positive count, its primary lookup raised
\* Item2ItemError and its fallback query QdrantError.
C8_Witness ==
    /\ entry = "by_publisher"
    /\ iCount > 0
    /\ primaryOutcome = "Item2ItemError"
    /\ fallbackOutcome = "QdrantError"
    /\ ipc = "returned"

\* A lookup handed the entry point a candidate list.
ObtainedCandidates == primaryOutcome = "ok" \/ fallbackOutcome = "ok"

\* C9: an entry point that obtained the candidate list C returns
\* min(count, |C|) recommendations that wrap elements at different positions
\* of C, and all of C in C's order when count >= |C|.
C9_SampleOfCandidates ==
    (ipc = "returned" /\ ObtainedCandidates) =>
        /\ Len(iResult) = Min(iCount, Len(candidates))
        /\ \E q \in Picks(Len(candidates), Len(iResult)) :
               iResult = [k \in 1..Len(iResult) |-> CorpusRecommendation(candidates[q[k]])]
        /\ iCount >= Len(candidates) =>
               iResult = [k \in DOMAIN candidates |-> CorpusRecommendation(candidates[k])]

\* A fallback query returned more candidates than were asked for, and the
\* call returned a sample of them that is no prefix of the list.
C9_Witness ==
    /\ ipc = "returned"
    /\ fallbackOutcome = "ok"
    /\ 0 < iCount /\ iCount < Len(candidates)
    /\ Len(iResult) = iCount
    /\ iResult[1] # CorpusRecommendation(candidates[1])

----------------------------------------------------------------------------
\* Claims about SpecHome: provider failure, preliminary fetches, slate objects

\* C11: when a slate provider call of a lineup request raises, the request
\* fails with that error: no lineup is returned for it, neither one holding
\* the slates of the calls that succeeded nor one with an empty slate in
\* the failed call's place.
C11_ProviderFailureFailsRequest ==
    providerRaised =>
        /\ hpc = "failed"
        /\ hError = "ProviderError"
        /\ lineup.slates = <<>>
        /\ lineup.recommendation_surface_id = "none"

\* One of several provider calls raised and the request has failed.
C11_Witness ==
    /\ providerRaised
    /\ hpc = "failed"
    /\ hError = "ProviderError"
    /\ Cardinality(invoked) > 1

\* C12 as stated: in a lineup request for either supported locale, a slate
\* provider is invoked only after all three preliminary fetches completed.
C12_AllLocalesFetchFirst ==
    (locale \in {"en_US", "de_DE"} /\ invoked # {}) =>
        fetched = PreliminaryFetches

\* C12, amended: in an en_US lineup request the topic catalog is asked and
\* the slate providers are invoked only after the impression-cap list, the
\* preferred topics and the experiment assignment were all fetched; a de_DE
\* lineup request makes none of the three fetches.
C12_EnUsFetchesFirst ==
    /\ (locale = "en_US" /\ (invoked # {} \/ topicRequest # <<>> \/ providers # <<>>)) =>
           (fetched = PreliminaryFetches /\ fetchPending = {})
    /\ locale = "de_DE" => (fetched = {} /\ fetchPending = {})

\* The providers of an en_US request are running, after the three fetches.
C12_Witness ==
    /\ locale = "en_US"
    /\ hpc = "gather"
    /\ invoked # {}
    /\ fetched = PreliminaryFetches

\* C13 as stated: after Dedup-and-Limit every slate object a provider
\* returned still holds the sequence the provider produced.
C13_SlatesUntouched ==
    hpc = "done" => \A i \in DOMAIN heap : heap[i] = produced[i]

\* C13, amended: Dedup-and-Limit changes the slate objects in place. Until
\* it runs, a returned slate object holds what its provider produced; after
\* it, the object holds the pass's output for its position, which is what
\* the provider produced without the ids that earlier slates retained, cut
\* to recommendation_count.
C13_SlatesChangedInPlace ==
    /\ hpc = "gather" => \A i \in completed : heap[i] = produced[i]
    /\ hpc = "done" =>
           \A i \in DOMAIN heap :
               /\ heap[i] = dedupe_and_limit(produced, hCount, {})[i]
               /\ Len(heap[i]) <= hCount
               /\ \A r \in Range(heap[i]) :
                      /\ r \in Range(produced[i])
                      /\ \A q \in 1..(i - 1) : r \notin Range(heap[q])

\* A lineup was returned and a slate object no longer holds what its
\* provider produced.
C13_Witness ==
    /\ hpc = "done"
    /\ \E i \in DOMAIN heap : heap[i] # produced[i]


----------------------------------------------------------------------------
\* SpecThompson: TopicRecommendationsModelUtils.thompson_sampling
\*
\* Clicks, impressions and Beta parameters are counted in thousandths, so
\* that the constant prior (0.02, 1.0) is a pair of integers. Every value
\* that enters the arithmetic is a multiple of ten thousandths, so a positive
\* sum is above the floor and max(x, 1e-18) is x for it; the floor itself is
\* the smallest positive value of the model, Epsilon.

MaxThompsonRecs == 2
NumScores == 2

DEFAULT_ALPHA_PRIOR == 20
DEFAULT_BETA_PRIOR == 1000
Epsilon == 1

RecItemIds == {"999", "333", "111"}

\* Click data rows of items: ordinary, more clicks than impressions, negative.
ClickEntries ==
    { [clicks |-> 1000, impressions |-> 2000],
      [clicks |-> 2000, impressions |-> 1000],
      [clicks |-> -1000, impressions |-> -1000] }

\* The "default" row holds the prior's parameters: a fitted prior, the
\* malformed one of test_invalid_prior, and zeros.
DefaultEntries ==
    { [clicks |-> 20, impressions |-> 1000],
      [clicks |-> 99000, impressions |-> -14000],
      [clicks |-> 0, impressions |-> 0] }

Scores == 1..NumScores

RecLists == {s \in SeqsUpTo(RecItemIds, MaxThompsonRecs) : IsInjective(s)}

\* What get_clickdata(module, item_list) can return: rows for some of the
\* asked ids, with or without the "default" row.
ClickdataResults(item_list) ==
    UNION { [keys -> ClickEntries \cup DefaultEntries] :
                keys \in SUBSET (Range(item_list) \cup {"default"}) }

WellFormed(data) ==
    \A key \in DOMAIN data :
        IF key = "default" THEN data[key] \in DefaultEntries
                           ELSE data[key] \in ClickEntries

\* Variant of PriorOf: a missing "default" row gives the prior (0, 0).
PriorOfMissingAsZero(data) ==
    IF "default" \in DOMAIN data
    THEN <<data["default"].clicks, data["default"].impressions>>
    ELSE <<0, 0>>

\* The prior after get_clickdata returned data: the "default" row's clicks
\* and impressions; clk_data['default'] raises KeyError without that row,
\* and the handler sets the constant prior.
PriorOf(data) ==
    IF "default" \in DOMAIN data
    THEN <<data["default"].clicks, data["default"].impressions>>
    ELSE <<DEFAULT_ALPHA_PRIOR, DEFAULT_BETA_PRIOR>>

\* The Beta parameters rec is sampled with: clamped posterior parameters
\* when clk_data has a row for it, the prior as it is otherwise.
BetaParams(data, alpha, beta, item_id) ==
    IF item_id \in DOMAIN data
    THEN <<Max(data[item_id].clicks + alpha, Epsilon),
           Max(data[item_id].impressions - data[item_id].clicks + beta, Epsilon)>>
    ELSE <<alpha, beta>>

\* scipy's rvs raises ValueError (domain error) unless both shape parameters
\* are positive.
ValidBeta(ab) == ab[1] > 0 /\ ab[2] > 0

\* Variant of SortedPosition: the sort without reverse=True, ascending.
SortedPositionAscending(scores, i) ==
    1 + Cardinality({j \in DOMAIN scores :
                        \/ scores[j] < scores[i]
                        \/ (scores[j] = scores[i] /\ j < i)})

\* scores.sort(key=itemgetter(1), reverse=True): descending by score, recs
\* of equal score in their order in recs. The position of rec i.
SortedPosition(scores, i) ==
    1 + Cardinality({j \in DOMAIN scores :
                        \/ scores[j] > scores[i]
                        \/ (scores[j] = scores[i] /\ j < i)})

SortByScore(recs, scores) ==
    [k \in DOMAIN recs |-> recs[CHOOSE i \in DOMAIN recs : SortedPosition(scores, i) = k]]

\* thompson_sampling(recs, module) is called; empty recs are returned at once.
ThompsonSampling(recs) ==
    /\ tpc = "idle"
    /\ tRecs' = recs
    /\ tpc' = IF recs = <<>> THEN "done" ELSE "fetch"
    /\ UNCHANGED <<clk_data, clickdataOutcome, alpha_prior, beta_prior, tParams,
                   tScores, tOut, tError, dvars, hvars, ivars, svars, pvars, gvars>>

\* get_clickdata returns data and the prior is read from it.
ClickdataReturned(data) ==
    /\ tpc = "fetch"
    /\ WellFormed(data)
    /\ clickdataOutcome' = "data"
    /\ clk_data' = data
    /\ alpha_prior' = PriorOf(data)[1]
    /\ beta_prior' = PriorOf(data)[2]
    /\ tpc' = "sample"
    /\ UNCHANGED <<tRecs, tParams, tScores, tOut, tError, dvars, hvars, ivars, svars, pvars, gvars>>

\* get_clickdata raises ValueError: no rows at all.
ClickdataRaisesValueError ==
    /\ tpc = "fetch"
    /\ clickdataOutcome' = "ValueError"
    /\ clk_data' = <<>>
    /\ alpha_prior' = DEFAULT_ALPHA_PRIOR
    /\ beta_prior' = DEFAULT_BETA_PRIOR
    /\ tpc' = "sample"
    /\ UNCHANGED <<tRecs, tParams, tScores, tOut, tError, dvars, hvars, ivars, svars, pvars, gvars>>

\* The sampling loop and the sort. The loop stops at the first rec whose
\* parameters scipy rejects, and the ValueError leaves thompson_sampling.
SampleAndSort(scores) ==
    /\ tpc = "sample"
    /\ LET params == [k \in DOMAIN tRecs |->
                         BetaParams(clk_data, alpha_prior, beta_prior, tRecs[k])]
           bad == {k \in DOMAIN tRecs : ~ValidBeta(params[k])}
       IN  IF bad = {}
           THEN /\ tParams' = params
                /\ tScores' = scores
                /\ tOut' = SortByScore(tRecs, scores)
                /\ tpc' = "done"
                /\ UNCHANGED tError
           ELSE /\ tParams' = SubSeq(params, 1, CHOOSE k \in bad : \A q \in bad : k <= q)
                /\ tError' = "ValueError"
                /\ tpc' = "failed"
                /\ UNCHANGED <<tScores, tOut>>
    /\ UNCHANGED <<tRecs, clk_data, clickdataOutcome, alpha_prior, beta_prior,
                   dvars, hvars, ivars, svars, pvars, gvars>>

InitThompson == DedupeIdle /\ HomeIdle /\ Item2ItemIdle /\ RankersIdle

NextThompson ==
    \/ \E recs \in RecLists : ThompsonSampling(recs)
    \/ \E data \in ClickdataResults(tRecs) : ClickdataReturned(data)
    \/ ClickdataRaisesValueError
    \/ \E scores \in [DOMAIN tRecs -> Scores] : SampleAndSort(scores)

SpecThompson == InitThompson /\ [][NextThompson]_vars

\* C14: whatever click data comes back, thompson_sampling ends without an
\* error and every rec was sampled from a Beta distribution with two
\* strictly positive parameters.
C14_PositiveParametersNoError ==
    tpc \in {"done", "failed"} =>
        /\ tError = "none"
        /\ tpc = "done"
        /\ \A k \in DOMAIN tParams : tParams[k][1] > 0 /\ tParams[k][2] > 0

\* C15: when get_clickdata returns data with a "default" row, the prior is
\* that row's (clicks, impressions); when it raises ValueError or the data
\* has no "default" row, the prior is (0.02, 1.0), and thompson_sampling
\* then ends without an error.
C15_PriorFromDefaultOrConstant ==
    clickdataOutcome # "none" =>
        /\ (clickdataOutcome = "data" /\ "default" \in DOMAIN clk_data) =>
               /\ alpha_prior = clk_data["default"].clicks
               /\ beta_prior = clk_data["default"].impressions
        /\ (\/ clickdataOutcome = "ValueError"
            \/ (clickdataOutcome = "data" /\ "default" \notin DOMAIN clk_data)) =>
               /\ alpha_prior = DEFAULT_ALPHA_PRIOR
               /\ beta_prior = DEFAULT_BETA_PRIOR
               /\ tError = "none"
               /\ tpc # "failed"

\* Data came back without a "default" row and with a row of negative counts
\* for a rec, and the ranking was returned under the constant prior.
C15_Witness ==
    /\ tpc = "done"
    /\ clickdataOutcome = "data"
    /\ "default" \notin DOMAIN clk_data
    /\ \E key \in DOMAIN clk_data : clk_data[key].clicks < 0
    /\ alpha_prior = DEFAULT_ALPHA_PRIOR
    /\ Len(tOut) = Len(tRecs)

----------------------------------------------------------------------------
\* SpecSpread: spread_publishers(recs, spread), called by get_recommendations
\*
\* A rec is named by its position in the input; sPubs gives its publisher.

MaxSpreadLen == 5
MaxSpread == 3

Publishers == {"thedude.com", "walter.com", "donnie.com", "abides.com"}

PublisherLists == SeqsUpTo(Publishers, MaxSpreadLen)

\* Variant of Window: only the publisher of the rec placed last counts.
WindowLastOnly(pubs, placed, spread) ==
    {pubs[placed[j]] : j \in (Len(placed) - Min(Min(spread, 1), Len(placed)) + 1)..Len(placed)}

\* The publishers of the last spread recs placed (of all of them, while
\* fewer are placed).
Window(pubs, placed, spread) ==
    {pubs[placed[j]] : j \in (Len(placed) - Min(spread, Len(placed)) + 1)..Len(placed)}

\* The places in the queue of recs whose publisher is outside the window.
ForwardCandidates(pubs, placed, rest, spread) ==
    {k \in DOMAIN rest : pubs[rest[k]] \notin Window(pubs, placed, spread)}

\* Variant of TakeOut: the rec at place k changes places with the head of
\* the queue and is taken from there.
TakeOutBySwap(rest, k) ==
    IF k = 1 THEN Tail(rest)
    ELSE SubSeq(rest, 2, k - 1) \o <<rest[1]>> \o SubSeq(rest, k + 1, Len(rest))

\* The queue after the rec at place k was taken out of it: the recs passed
\* over stay as they are.
TakeOut(rest, k) == SubSeq(rest, 1, k - 1) \o SubSeq(rest, k + 1, Len(rest))

\* Variant of GiveUp: the recs not yet placed are dropped.
GiveUpDropping(placed, rest) == placed

\* Giving up: the recs not yet placed follow as they are.
GiveUp(placed, rest) == placed \o rest

\* The walk: the nearest rec of the queue whose publisher is outside the
\* window is placed next; without such a rec the walk gives up.
RECURSIVE SpreadLoop(_, _, _, _)
SpreadLoop(pubs, placed, rest, spread) ==
    IF rest = <<>>
    THEN [out |-> placed, gave_up_at |-> 0]
    ELSE LET cands == ForwardCandidates(pubs, placed, rest, spread)
         IN  IF cands = {}
             THEN [out |-> GiveUp(placed, rest), gave_up_at |-> Len(placed) + 1]
             ELSE LET k == CHOOSE c \in cands : \A q \in cands : c <= q
                  IN  SpreadLoop(pubs, Append(placed, rest[k]), TakeOut(rest, k), spread)

spread_publishers(pubs, spread) ==
    SpreadLoop(pubs, <<>>, [i \in 1..Len(pubs) |-> i], spread)

InitSpread ==
    /\ spc = "input"
    /\ sPubs \in PublisherLists
    /\ sSpread \in 0..MaxSpread
    /\ sOut = <<>>
    /\ sGaveUpAt = 0
    /\ DedupeIdle /\ HomeIdle /\ Item2ItemIdle /\ ThompsonIdle /\ TopicsIdle /\ TopicRecsIdle

SpreadPublishers ==
    /\ spc = "input"
    /\ sOut' = spread_publishers(sPubs, sSpread).out
    /\ sGaveUpAt' = spread_publishers(sPubs, sSpread).gave_up_at
    /\ spc' = "done"
    /\ UNCHANGED <<sPubs, sSpread, dvars, hvars, ivars, tvars, pvars, gvars>>

NextSpread == SpreadPublishers

SpecSpread == InitSpread /\ [][NextSpread]_vars

\* Claims about SpecSpread

Identity(n) == [i \in 1..n |-> i]

\* The recs placed before output position p.
PlacedBefore(p) == {sOut[q] : q \in 1..(p - 1)}

\* The publishers of the sSpread recs placed just before output position p.
WindowAt(p) == {sPubs[sOut[q]] : q \in Max(1, p - sSpread)..(p - 1)}

\* The recs not placed before p whose publisher is outside the window at p.
Eligible(p) == {i \in DOMAIN sPubs \ PlacedBefore(p) : sPubs[i] \notin WindowAt(p)}

\* C16: at every output position before the walk gives up, the rec placed
\* is the nearest rec of the input, among those not yet placed, whose
\* publisher differs from the publishers of the min_spread recs placed just
\* before it. The recs passed over stay in input order (the rec is taken out
\* of the queue, not swapped with its head), so the nearest is the one of
\* least input position.
C16_NearestForwardCandidatePlaced ==
    spc = "done" =>
        \A p \in DOMAIN sOut :
            (sGaveUpAt = 0 \/ p < sGaveUpAt) =>
                /\ sOut[p] \in Eligible(p)
                /\ \A i \in Eligible(p) : sOut[p] <= i

\* A rec was placed over two recs that were passed over, and a later rec
\* was placed before the walk ended or gave up.
C16_Witness ==
    /\ spc = "done"
    /\ \E p \in DOMAIN sOut :
           /\ sGaveUpAt = 0 \/ p + 1 < sGaveUpAt
           /\ p < Len(sOut)
           /\ sOut[p] >= p + 2

\* C17: when at some output position no rec that is not yet placed has a
\* publisher outside the window, the walk gives up there: from that position
\* on the output is the recs not yet placed, in input order. The walk gives
\* up nowhere else, and the output is always a permutation of the input.
C17_GiveUpKeepsRemainder ==
    spc = "done" =>
        /\ Len(sOut) = Len(sPubs)
        /\ Range(sOut) = DOMAIN sPubs
        /\ \A p \in DOMAIN sOut :
               ((sGaveUpAt = 0 \/ p <= sGaveUpAt) /\ Eligible(p) = {}) => sGaveUpAt = p
        /\ sGaveUpAt > 0 =>
               /\ sGaveUpAt \in DOMAIN sOut
               /\ Eligible(sGaveUpAt) = {}
               /\ \A p, q \in sGaveUpAt..Len(sOut) : p < q => sOut[p] < sOut[q]

\* The walk reordered a rec, then gave up with two or more recs left.
C17_Witness ==
    /\ spc = "done"
    /\ sGaveUpAt > 1
    /\ sGaveUpAt < Len(sOut)
    /\ \E p \in 1..(sGaveUpAt - 1) : sOut[p] # p

InputWindow(p) == {sPubs[q] : q \in Max(1, p - sSpread)..(p - 1)}

\* The input positions whose publisher repeats within the window before them.
Conflicts == {p \in DOMAIN sPubs : sPubs[p] \in InputWindow(p)}

----------------------------------------------------------------------------
\* SpecTopics: rank_by_preferred_topics(pool, preferred_topics, count)
\*
\* An item is named by its position in the pool; pPool gives its topic.

MaxPoolLen == 4
MaxPreferred == 2
MaxRankCount == 3

PoolTopics == {"business", "technology", "gaming", "health"}

Pools == SeqsUpTo(PoolTopics, MaxPoolLen)

PreferredLists == {s \in SeqsUpTo(PoolTopics, MaxPreferred) : IsInjective(s)}

\* The items of a topic, in pool order.
ItemsOf(pool, topic) ==
    LET OfTopic(i) == pool[i] = topic
    IN  SelectSeq([i \in 1..Len(pool) |-> i], OfTopic)

\* Variant of Quota: the slots left over by the division go to the topics
\* ranked last.
QuotaRemainderLast(rank, count, k) ==
    (count \div k) + (IF rank > k - (count % k) THEN 1 ELSE 0)

\* The slots of the preferred topic of a rank (from 1), of k preferred
\* topics: an even share, and one more for the topics ranked earliest while
\* the division leaves slots over.
Quota(rank, count, k) ==
    (count \div k) + (IF rank - 1 < count % k THEN 1 ELSE 0)

\* What each preferred topic gives for its own slots.
OwnShare(pool, preferred, count) ==
    [r \in DOMAIN preferred |->
        Min(Quota(r, count, Len(preferred)), Len(ItemsOf(pool, preferred[r])))]

\* A topic that ran out leaves slots open: they are filled from the
\* preferred topics that have items left, going on in rank order from r.
RECURSIVE FillFromNext(_, _, _, _, _)
FillFromNext(pool, preferred, takes, open, r) ==
    IF open = 0 \/ r > Len(preferred)
    THEN takes
    ELSE LET more == Min(open, Len(ItemsOf(pool, preferred[r])) - takes[r])
         IN  FillFromNext(pool, preferred, [takes EXCEPT ![r] = @ + more],
                          open - more, r + 1)

RECURSIVE SumTo(_, _)
SumTo(takes, r) == IF r = 0 THEN 0 ELSE takes[r] + SumTo(takes, r - 1)

\* How many items each preferred topic gives in the end.
PreferredTakes(pool, preferred, count) ==
    LET own == OwnShare(pool, preferred, count)
    IN  FillFromNext(pool, preferred, own, count - SumTo(own, Len(own)), 1)

\* The preferred topics' items, topic by topic in rank order.
RECURSIVE PreferredPart(_, _, _, _)
PreferredPart(pool, preferred, takes, r) ==
    IF r > Len(preferred)
    THEN <<>>
    ELSE SubSeq(ItemsOf(pool, preferred[r]), 1, takes[r])
             \o PreferredPart(pool, preferred, takes, r + 1)

\* The items of the topics that are not preferred.
OtherItems(pool, preferred) == {i \in DOMAIN pool : pool[i] \notin Range(preferred)}

\* Variant of BackfillBefore: the other topics' items are taken in pool order.
BackfillBeforeInPoolOrder(pool, i, j) == i < j

\* The order of the backfill among the other topics' items: the first items
\* of all these topics come before any topic's second item, and so on; among
\* items of equal turn, pool order.
BackfillBefore(pool, i, j) ==
    LET turn(x) == Cardinality({y \in 1..x : pool[y] = pool[x]})
    IN  \/ turn(i) < turn(j)
        \/ (turn(i) = turn(j) /\ i < j)

\* The first need items of the backfill order.
Backfill(pool, preferred, need) ==
    LET others == OtherItems(pool, preferred)
        place(x) == 1 + Cardinality({y \in others : BackfillBefore(pool, y, x)})
        n == Min(Max(need, 0), Cardinality(others))
    IN  [p \in 1..n |-> CHOOSE x \in others : place(x) = p]

\* Without preferred topics every slot is a backfill slot.
rank_by_preferred_topics(pool, preferred, count) ==
    LET takes == IF preferred = <<>> THEN <<>> ELSE PreferredTakes(pool, preferred, count)
        first == PreferredPart(pool, preferred, takes, 1)
    IN  first \o Backfill(pool, preferred, count - Len(first))

InitTopics ==
    /\ ppc = "input"
    /\ pPool \in Pools
    /\ pPreferred \in PreferredLists
    /\ pCount \in 0..MaxRankCount
    /\ pOut = <<>>
    /\ DedupeIdle /\ HomeIdle /\ Item2ItemIdle /\ ThompsonIdle /\ SpreadIdle /\ TopicRecsIdle

RankByPreferredTopics ==
    /\ ppc = "input"
    /\ pOut' = rank_by_preferred_topics(pPool, pPreferred, pCount)
    /\ ppc' = "done"
    /\ UNCHANGED <<pPool, pPreferred, pCount, dvars, hvars, ivars, tvars, svars, gvars>>

NextTopics == RankByPreferredTopics

SpecTopics == InitTopics /\ [][NextTopics]_vars

\* Claims about SpecTopics

\* The number of items of a topic among the first n items of the output.
Contributed(topic, n) == Cardinality({p \in 1..n : pPool[pOut[p]] = topic})

\* The number of items of a topic in the pool.
Available(topic) == Cardinality({i \in DOMAIN pPool : pPool[i] = topic})

\* The pool items of the preferred topics.
PreferredItems == {i \in DOMAIN pPool : pPool[i] \in Range(pPreferred)}

\* C19: with k >= 1 preferred topics, each holding enough pool items for
\* its share, and count = n, the output has n items, the preferred topic of
\* rank i (from 0) gives floor(n / k) items and one more exactly when
\* i < n mod k, and no item of another topic is in the output.
C19_EvenSplitRemainderToEarliest ==
    LET k == Len(pPreferred)
    IN  ( /\ ppc = "done"
          /\ k >= 1
          /\ \A r \in 1..k :
                 Available(pPreferred[r])
                     >= (pCount \div k) + (IF r - 1 < pCount % k THEN 1 ELSE 0) )
        =>
        /\ Len(pOut) = pCount
        /\ IsInjective(pOut)
        /\ \A r \in 1..k :
               Contributed(pPreferred[r], Len(pOut))
                   = (pCount \div k) + (IF r - 1 < pCount % k THEN 1 ELSE 0)
        /\ \A p \in DOMAIN pOut : pPool[pOut[p]] \in Range(pPreferred)

\* Two preferred topics share three slots unevenly, the pool holding more
\* of both topics' items than are taken and items of other topics as well.
C19_Witness ==
    /\ ppc = "done"
    /\ Len(pPreferred) = 2
    /\ pCount = 3
    /\ Available(pPreferred[1]) >= 2
    /\ Available(pPreferred[2]) >= 2
    /\ Contributed(pPreferred[1], Len(pOut)) = 2
    /\ Contributed(pPreferred[2], Len(pOut)) = 1

\* C20: when the preferred topics hold only m < count pool items, the
\* output has min(count, pool size) items, its first m items are exactly the
\* preferred topics' items, and the others are items of other topics, of
\* which none gives a second item while another that has items gives none.
C20_BackfillAfterPreferred ==
    LET m == Cardinality(PreferredItems)
        others == PoolTopics \ Range(pPreferred)
    IN  (ppc = "done" /\ m < pCount) =>
            /\ Len(pOut) = Min(pCount, Len(pPool))
            /\ IsInjective(pOut)
            /\ {pOut[p] : p \in 1..m} = PreferredItems
            /\ \A p \in (m + 1)..Len(pOut) : pPool[pOut[p]] \notin Range(pPreferred)
            /\ \A t, u \in others :
                   (Contributed(t, Len(pOut)) >= 2 /\ Available(u) > 0) =>
                       Contributed(u, Len(pOut)) >= 1

\* One preferred item; two backfill items of two topics, although the pool
\* holds two items of one of these topics ahead of the other topic's item.
C20_Witness ==
    /\ ppc = "done"
    /\ Len(pPreferred) = 1
    /\ Cardinality(PreferredItems) = 1
    /\ pCount = 3
    /\ Len(pOut) = 3
    /\ \E i, j, l \in DOMAIN pPool :
           /\ i < j /\ j < l
           /\ pPool[i] = pPool[j]
           /\ pPool[i] \notin Range(pPreferred)
           /\ pPool[l] \notin Range(pPreferred)
           /\ pPool[l] # pPool[i]
           /\ pOut[2] = i /\ pOut[3] = l

----------------------------------------------------------------------------
\* Claims about SpecHome: the en-US lineup

\* The provider and the topic of each slate of the returned lineup, in order.
LineupProviders ==
    [k \in DOMAIN lineup.slates |->
        <<providers[lineup.slates[k]].kind, providers[lineup.slates[k]].topic>>]

----------------------------------------------------------------------------
\* Claims about SpecItem2Item: the lookups of one call

\* C22: in one call of after_article, syndicated or by_publisher the
\* primary lookup is called once, first; the entry point's own fallback
\* query, with a pool of 100, is called at most once, and only after the
\* primary lookup raised Item2ItemError; no lookup is called again.
C22_LookupsOnceNoRetry ==
    (ipc # "idle" /\ entry \in {"after_article", "syndicated", "by_publisher"}) =>
        /\ Len(lookups) \in {1, 2}
        /\ lookups[1] = PrimaryLookup(entry, iCount)
        /\ \A k \in 2..Len(lookups) : lookups[k] # lookups[1]
        /\ Len(lookups) = 2 <=> primaryOutcome = "Item2ItemError"
        /\ Len(lookups) = 2 =>
               /\ lookups[2].count = 100
               /\ lookups[2].fn = (IF entry = "by_publisher" THEN "random_by_publisher"
                                                             ELSE "frequently_saved")
               /\ lookups[2].is_syndicated =
                      (CASE entry = "after_article" -> "False"
                         [] entry = "syndicated" -> "True"
                         [] entry = "by_publisher" -> "-")
               /\ lookups[2].domain =
                      (IF entry = "by_publisher" THEN PublisherDomain ELSE "-")
        /\ fallbackOutcome # "none" => Len(lookups) = 2

\* syndicated ended after its fallback query raised: two lookups were made.
C22_Witness ==
    /\ entry = "syndicated"
    /\ primaryOutcome = "Item2ItemError"
    /\ fallbackOutcome \in LookupErrors
    /\ ipc \in {"returned", "raised"}
    /\ Len(lookups) = 2

\* C23: a QdrantError raised by the primary lookup of after_save reaches
\* the caller: after_save returns no list, neither the empty one nor
\* another, and no other lookup is called.
C23_AfterSaveQdrantErrorPropagates ==
    (entry = "after_save" /\ primaryOutcome = "QdrantError") =>
        /\ ipc = "raised"
        /\ iError = "QdrantError"
        /\ lookups = <<PrimaryLookup("after_save", iCount)>>
        /\ fallbackOutcome = "none"

\* The primary lookup of after_save raised QdrantError.
C23_Witness ==
    /\ entry = "after_save"
    /\ primaryOutcome = "QdrantError"
    /\ ipc = "raised"
    /\ iError = "QdrantError"

----------------------------------------------------------------------------
\* Claims about SpecThompson: the returned order

\* The place in recs of the rec returned at place k.
InputPlace(k) == CHOOSE i \in DOMAIN tRecs : tRecs[i] = tOut[k]

\* C24: what thompson_sampling returns is a permutation of recs, every rec
\* once and none added, in which the sampled scores do not increase from
\* first to last, whatever scores were sampled.
C24_PermutationByScoreDescending ==
    tpc = "done" =>
        /\ Len(tOut) = Len(tRecs)
        /\ Range(tOut) = Range(tRecs)
        /\ IsInjective(tOut)
        /\ \A k \in 1..(Len(tOut) - 1) :
               tScores[InputPlace(k)] >= tScores[InputPlace(k + 1)]

\* The second rec was sampled the higher score and is returned first.
C24_Witness ==
    /\ tpc = "done"
    /\ Len(tRecs) = 2
    /\ tScores[1] < tScores[2]
    /\ tOut = <<tRecs[2], tRecs[1]>>

----------------------------------------------------------------------------
\* SpecTopicRecs: TopicRecommendationsModel.get_recommendations
\*
\* A recommendation is named by its item id; a list may hold an id twice.
\* Counts are not negative.

MaxFetched == 2
MaxTopicCount == 1

\* PageType.editorial_collection and the page types of the else branch.
PageTypes == {"editorial_collection", "topic_page"}

\* The publisher_spread argument: 3 is its default.
PublisherSpreads == {1, 3}

\* The publisher of each recommendation.
PublisherOf(item_id) ==
    CASE item_id = "999" -> "thedude.com"
      [] item_id = "333" -> "thedude.com"
      [] item_id = "111" -> "walter.com"
      [] item_id = "222" -> "walter.com"

\* The recommendations of the topic.
TopicRecItemIds == RecItemIds \cup {"222"}

\* What RecommendationModel.get_recommendations may return.
FetchedLists == SeqsUpTo(TopicRecItemIds, MaxFetched)

\* The item ids of a list.
item_ids(list) == {list[k] : k \in DOMAIN list}

\* filter(lambda rec: rec.item_id not in ids, list)
RECURSIVE FilterOut(_, _)
FilterOut(list, ids) ==
    IF list = <<>> THEN <<>>
    ELSE IF Head(list) \in ids
         THEN FilterOut(Tail(list), ids)
         ELSE <<Head(list)>> \o FilterOut(Tail(list), ids)

\* Variant of dedupe: the duplicates are removed from the curated list.
DedupeFavoringAlgorithmic(model) ==
    [curated |-> FilterOut(model.curated, item_ids(model.algorithmic)),
     algorithmic |-> model.algorithmic]

\* dedupe: with an id in both lists, the algorithmic list loses every
\* recommendation whose id is in the curated list.
dedupe(model) ==
    LET dupes == item_ids(model.curated) \cap item_ids(model.algorithmic)
    IN  IF dupes # {}
        THEN [curated |-> model.curated,
              algorithmic |-> FilterOut(model.algorithmic, item_ids(model.curated))]
        ELSE model

\* list[0:n] for n >= 0.
SliceTo(list, n) == SubSeq(list, 1, Min(n, Len(list)))

\* Variant of limit_results: the two counts change places.
LimitResultsSwapped(curated, algorithmic, algorithmic_count, curated_count) ==
    [curated_recommendations |-> SliceTo(curated, algorithmic_count),
     algorithmic_recommendations |-> SliceTo(algorithmic, curated_count)]

\* limit_results: both lists are cut to their counts.
limit_results(curated, algorithmic, algorithmic_count, curated_count) ==
    [curated_recommendations |-> SliceTo(curated, curated_count),
     algorithmic_recommendations |-> SliceTo(algorithmic, algorithmic_count)]

\* spread_publishers applied to a list of recommendations.
SpreadRecs(list, spread) ==
    LET order == spread_publishers([k \in DOMAIN list |-> PublisherOf(list[k])], spread).out
    IN  [k \in DOMAIN list |-> list[order[k]]]

\* get_recommendations(slug, algorithmic_count, curated_count,
\* publisher_spread) is called and awaits TopicModel.get_topic.
GetRecommendations(algorithmic_count, curated_count, publisher_spread) ==
    /\ gpc = "idle"
    /\ gAlgCount' = algorithmic_count
    /\ gCurCount' = curated_count
    /\ gSpread' = publisher_spread
    /\ gpc' = "topic"
    /\ UNCHANGED <<gPageType, gFetched, gDeduped, gRanked, gResult, gError,
                   dvars, hvars, ivars, tvars, svars, pvars>>

\* The topic is returned; the lists of its page type are asked for.
TopicReturned(page_type) ==
    /\ gpc = "topic"
    /\ gPageType' = page_type
    /\ gpc' = "fetch"
    /\ UNCHANGED <<gAlgCount, gCurCount, gSpread, gFetched, gDeduped, gRanked, gResult,
                   gError, dvars, hvars, ivars, tvars, svars, pvars>>

\* The rest of get_recommendations once thompson_sampling returned ranked:
\* publisher spread of the algorithmic list, then limit_results.
SpreadLimitAndReturn(curated, ranked) ==
    /\ gRanked' = ranked
    /\ gResult' = limit_results(curated, SpreadRecs(ranked, gSpread), gAlgCount, gCurCount)
    /\ gpc' = "done"

\* The fetch returns: the collection list of an editorial collection, in
\* the curated place, or the algorithmic and the curated list of another
\* topic. dedupe follows; thompson_sampling returns an empty list at once
\* and awaits the click data of any other.
RecsFetched(curated, algorithmic) ==
    /\ gpc = "fetch"
    /\ gPageType = "editorial_collection" => algorithmic = <<>>
    /\ gFetched' = [curated |-> curated, algorithmic |-> algorithmic]
    /\ gDeduped' = dedupe(gFetched')
    /\ IF gDeduped'.algorithmic = <<>>
       THEN SpreadLimitAndReturn(gDeduped'.curated, <<>>)
       ELSE /\ gpc' = "thompson"
            /\ UNCHANGED <<gRanked, gResult>>
    /\ UNCHANGED <<gPageType, gAlgCount, gCurCount, gSpread, gError,
                   dvars, hvars, ivars, tvars, svars, pvars>>

\* thompson_sampling returns the algorithmic list sorted by the scores it
\* sampled.
ThompsonReturns(scores) ==
    /\ gpc = "thompson"
    /\ SpreadLimitAndReturn(gDeduped.curated, SortByScore(gDeduped.algorithmic, scores))
    /\ UNCHANGED <<gPageType, gAlgCount, gCurCount, gSpread, gFetched, gDeduped, gError,
                   dvars, hvars, ivars, tvars, svars, pvars>>

\* thompson_sampling raises the ValueError of a rejected prior, and
\* get_recommendations has no handler.
ThompsonRaises ==
    /\ gpc = "thompson"
    /\ gError' = "ValueError"
    /\ gpc' = "failed"
    /\ UNCHANGED <<gPageType, gAlgCount, gCurCount, gSpread, gFetched, gDeduped, gRanked,
                   gResult, dvars, hvars, ivars, tvars, svars, pvars>>

InitTopicRecs == DedupeIdle /\ HomeIdle /\ Item2ItemIdle /\ RankersIdle

NextTopicRecs ==
    \/ \E a, c \in 0..MaxTopicCount, s \in PublisherSpreads : GetRecommendations(a, c, s)
    \/ \E page_type \in PageTypes : TopicReturned(page_type)
    \/ gpc = "fetch" /\ \E curated, algorithmic \in FetchedLists : RecsFetched(curated, algorithmic)
    \/ \E scores \in [DOMAIN gDeduped.algorithmic -> Scores] : ThompsonReturns(scores)
    \/ ThompsonRaises

SpecTopicRecs == InitTopicRecs /\ [][NextTopicRecs]_vars

\* Claims about SpecTopicRecs

\* C25: after dedupe no item id is in both lists, the curated list is the
\* fetched one, and the algorithmic list is the fetched one without the
\* recommendations whose id is in the curated list, the others in their
\* order.
C25_DedupeFavorsCurated ==
    gpc \in {"thompson", "done", "failed"} =>
        /\ item_ids(gDeduped.curated) \cap item_ids(gDeduped.algorithmic) = {}
        /\ gDeduped.curated = gFetched.curated
        /\ \E keep \in SUBSET DOMAIN gFetched.algorithmic :
               /\ keep = {k \in DOMAIN gFetched.algorithmic :
                             \A c \in DOMAIN gFetched.curated :
                                 gFetched.curated[c] # gFetched.algorithmic[k]}
               /\ Len(gDeduped.algorithmic) = Cardinality(keep)
               /\ \A k \in keep :
                      gDeduped.algorithmic[Cardinality({q \in keep : q <= k})]
                          = gFetched.algorithmic[k]

\* The algorithmic list held a curated id ahead of another id and lost it.
C25_Witness ==
    /\ gpc \in {"thompson", "done"}
    /\ Len(gFetched.algorithmic) = 2
    /\ gFetched.algorithmic[1] \in item_ids(gFetched.curated)
    /\ gDeduped.algorithmic = <<gFetched.algorithmic[2]>>

\* C26: the curated list of the returned model is the first curated_count
\* recommendations of the fetched curated (or collection) list, in fetched
\* order, for both page types; the algorithmic list is the deduped one as
\* thompson_sampling permuted it, publisher-spread and cut to
\* algorithmic_count.
C26_CuratedNeverReranked ==
    gpc = "done" =>
        /\ gResult.curated_recommendations =
               [k \in 1..Min(gCurCount, Len(gFetched.curated)) |-> gFetched.curated[k]]
        /\ \E q \in Picks(Len(gDeduped.algorithmic), Len(gDeduped.algorithmic)) :
               gRanked = [k \in DOMAIN gDeduped.algorithmic |-> gDeduped.algorithmic[q[k]]]
        /\ Len(gResult.algorithmic_recommendations) = Min(gAlgCount, Len(gRanked))
        /\ \A k \in DOMAIN gResult.algorithmic_recommendations :
               gResult.algorithmic_recommendations[k] = SpreadRecs(gRanked, gSpread)[k]

\* Two curated recommendations were fetched and the first alone returned,
\* while the algorithmic list came back in another order than fetched.
C26_Witness ==
    /\ gpc = "done"
    /\ Len(gFetched.curated) = 2
    /\ gFetched.curated[1] # gFetched.curated[2]
    /\ gCurCount = 1
    /\ gResult.curated_recommendations = <<gFetched.curated[1]>>
    /\ gAlgCount = 1
    /\ Len(gDeduped.algorithmic) = 2
    /\ gDeduped.algorithmic[1] # gDeduped.algorithmic[2]
    /\ gResult.algorithmic_recommendations = <<gDeduped.algorithmic[2]>>

====
